---- MODULE Spec2Model ----
(***************************************************************************)
(* Model of everybit/bitarray.c: a packed bit array (8 bits per char,      *)
(* bit i in byte i/8 at position i mod 8 from the least-significant bit),  *)
(* its get/set accessors, the shift normalisation get_shift/modulo, the    *)
(* mask-based single-byte rotation rotate_single behind bitarray_rotate,   *)
(* and the bit-by-bit reference rotation bitarray_rotate_old.              *)
(*                                                                         *)
(* C values are modelled by the integers they denote.  char is signed      *)
(* (x86-64 Linux, the platform of the 6.172 staff code): a char holds      *)
(* -128..127, unsigned char 0..255, and every conversion between them is   *)
(* written out (ToChar, ToUChar).  size_t and ssize_t are SizeBits wide;   *)
(* unsigned arithmetic wraps modulo 2^SizeBits (ToSize).                   *)
(***************************************************************************)
EXTENDS Integers, Sequences, FiniteSets, TLC

VARIABLES
    bit_sz,   \* struct bitarray: number of bits
    buf,      \* struct bitarray: the char buffer, indexed from 0
    pc,       \* the driver: "call" (about to call), "check" (call returned), "aborted"
    call,     \* the last call made: [op, x, y, z]
    pre,      \* the buffer when the last call was made
    ret,      \* the value the last call returned (0 for void)
    status,   \* how the last call ended: "ok", "abort" (assert failed), "segv"
    access    \* the indices of buf the last call read or wrote

vars == <<bit_sz, buf, pc, call, pre, ret, status, access>>

\* ------------------------------------------------------------- bounds

\* Largest bit_sz a bit array is created with.
MaxBitSz == 9

\* Rotation amounts are drawn from -MaxAmount..MaxAmount.
MaxAmount == 4

\* Width of size_t and ssize_t in the model (64 on the target; the wrap-around
\* cases depend only on the distance of the arguments to 2^SizeBits).
SizeBits == 16

\* ------------------------------------------------------------- C integers

Pow2(n) == 2 ^ n

SIZE_MOD == Pow2(SizeBits)

\* Conversion to size_t: reduction modulo 2^SizeBits.
ToSize(x) == x % SIZE_MOD

\* Conversion to ssize_t: the two's complement value of the low SizeBits bits.
ToSSize(x) == ((x + SIZE_MOD \div 2) % SIZE_MOD) - SIZE_MOD \div 2

\* Conversion to (signed) char.
ToChar(x) == ((x + 128) % 256) - 128

\* Conversion to unsigned char.
ToUChar(x) == x % 256

\* C's remainder operator: the result has the sign of the dividend.
CRem(n, m) ==
    LET am == IF m < 0 THEN -m ELSE m
    IN  IF n >= 0 THEN n % am ELSE -((-n) % am)

\* Bitwise and, or of two's complement integers.
RECURSIVE BitAnd(_, _)
BitAnd(a, b) ==
    IF a = 0 \/ b = 0 THEN 0
    ELSE IF a = -1 THEN b
    ELSE IF b = -1 THEN a
    ELSE (a % 2) * (b % 2) + 2 * BitAnd(a \div 2, b \div 2)

RECURSIVE BitOr(_, _)
BitOr(a, b) ==
    IF a = 0 THEN b
    ELSE IF b = 0 THEN a
    ELSE IF a = -1 \/ b = -1 THEN -1
    ELSE (IF a % 2 = 1 \/ b % 2 = 1 THEN 1 ELSE 0) + 2 * BitOr(a \div 2, b \div 2)

\* Bitwise complement.
BitNot(a) == -a - 1

\* x >> n on an int: arithmetic (sign-propagating) for negative x.
ShiftRight(x, n) == x \div Pow2(n)

\* x << n on a non-negative int.
ShiftLeft(x, n) == x * Pow2(n)

\* ------------------------------------------------------------- storage

\* Number of chars of the buffer of a bit array of n bits.
BufLen(n) == n \div 8 + (IF n % 8 = 0 THEN 0 ELSE 1)

\* calloc: the zeroed buffer.
bitarray_new(n) == [i \in 0 .. BufLen(n) - 1 |-> 0]

bitmask(bit_index) == ToChar(ShiftLeft(1, bit_index % 8))

bitarray_get(b, bit_index) ==
    BitAnd(b[bit_index \div 8], bitmask(bit_index)) # 0

\* Mutant of bitarray_set: the addressed bit is or-ed in without being cleared.
bitarray_set_no_clear(b, bit_index, value) ==
    [b EXCEPT ![bit_index \div 8] =
        ToChar(BitOr(b[bit_index \div 8],
                     IF value THEN bitmask(bit_index) ELSE 0))]

bitarray_set(b, bit_index, value) ==
    [b EXCEPT ![bit_index \div 8] =
        ToChar(BitOr(BitAnd(b[bit_index \div 8], BitNot(bitmask(bit_index))),
                     IF value THEN bitmask(bit_index) ELSE 0))]

\* ------------------------------------------------------------- index and masks

\* modulo's assert(signed_m > 0).
modulo_assert(m) == ToSSize(m) > 0

\* (n % signed_m) + signed_m stays inside ssize_t for every divisor the driver
\* passes: a divisor above SSIZE_MAX fails the assert first.
modulo(n, m) ==
    LET signed_m == ToSSize(m)
    IN  ToSize(CRem(CRem(n, signed_m) + signed_m, signed_m))

\* Mutant of get_shift: C's remainder, which keeps the sign of the amount.
get_shift_remainder(bit_length, bit_right_amount) ==
    CRem(bit_right_amount, ToSSize(bit_length))

get_shift(bit_length, bit_right_amount) ==
    LET result == ToSSize(modulo(bit_right_amount, bit_length))
    IN  IF result < 0 THEN ToSSize(result + bit_length) ELSE result

get_char_index(bit_offset) == bit_offset \div 8

get_end_char_index(bit_offset, bit_length) ==
    get_char_index(ToSize(bit_offset + bit_length - 1))

get_end_bit(bit_offset, bit_length) ==
    ToSize(8 - (ToSize(bit_offset + bit_length) % 8)) % 8

left_mask ==
    [k \in 0 .. 8 |-> ToChar(<<255, 127, 63, 31, 15, 7, 3, 1, 0>>[k + 1])]

right_mask ==
    [k \in 0 .. 8 |-> ToChar(<<255, 254, 252, 248, 240, 224, 192, 128, 0>>[k + 1])]

clean_left(c, bit_count) == ToChar(BitAnd(c, left_mask[bit_count]))

\* Mutant of clean_right: the mask is taken from left_mask.
clean_right_left_mask(c, bit_count) == ToChar(BitAnd(c, left_mask[bit_count]))

clean_right(c, bit_count) == ToChar(BitAnd(c, right_mask[bit_count]))

\* ------------------------------------------------------------- rotation

\* The buffer after rotate_single; charIndex indexes the buffer.
rotate_single(b, charIndex, beginBit, endBit, shiftBit) ==
    LET c   == ToUChar(b[charIndex])
        c1a == clean_left(ToChar(c), endBit)
        c1b == clean_right(c1a, beginBit + shiftBit)
        c1  == ToChar(ShiftRight(c1b, shiftBit))
        c2a == ToUChar(clean_left(ToChar(c), 8 - (beginBit + shiftBit)))
        c2b == ToUChar(clean_right(ToChar(c2a), beginBit))
        left_shift == ToSize((8 - beginBit - shiftBit) - endBit)
        c2  == ToUChar(ToUChar(ShiftLeft(c2b, left_shift)) % 256)
        c3  == clean_left(ToChar(c), 8 - beginBit)
        c4  == clean_right(ToChar(c), 8 - endBit)
        cn  == ToUChar(BitOr(BitOr(BitOr(c1, c2), c3), c4))
    IN  [b EXCEPT ![charIndex] = ToChar(cn)]

\* How a call that leaves the buffer as b and touches the bytes acc ends.
Outcome(st, b, acc) == [status |-> st, buf |-> b, access |-> acc]

\* bitarray_rotate behind its two early returns on the range and on the
\* degenerate lengths: the shift is normalised and, when the subrange lies in one
\* char, rotate_single is applied.  status is "ok" (returned), "abort" (modulo's
\* assert failed) or "oob" (rotate_single was entered with a char index outside
\* the buffer: undefined behaviour).
bitarray_rotate_shift(b, bit_offset, bit_length, bit_right_amount) ==
    IF ~modulo_assert(bit_length) THEN Outcome("abort", b, {})
    ELSE
      LET shift == get_shift(bit_length, bit_right_amount)
          shiftBit == CRem(shift, 8)
          beginCharIndex == get_char_index(bit_offset)
          endCharIndex == get_char_index(ToSize(bit_offset + bit_length - 1))
          beginBit == bit_offset % 8
          endBit == get_end_bit(bit_offset, bit_length)
      IN  IF shift = 0 THEN Outcome("ok", b, {})
          ELSE IF beginCharIndex # endCharIndex THEN Outcome("ok", b, {})
          ELSE IF beginCharIndex \notin DOMAIN b
               THEN Outcome("oob", b, {beginCharIndex})
          ELSE Outcome("ok",
                       rotate_single(b, beginCharIndex, beginBit, endBit, shiftBit),
                       {beginCharIndex})

\* Mutant of bitarray_rotate: the early return on lengths 0 and 1 is missing.
bitarray_rotate_no_degenerate(b, sz, bit_offset, bit_length, bit_right_amount) ==
    IF ToSize(bit_offset + bit_length) > sz THEN Outcome("ok", b, {})
    ELSE bitarray_rotate_shift(b, bit_offset, bit_length, bit_right_amount)

\* bitarray_rotate on the buffer b of an array of sz bits.
bitarray_rotate(b, sz, bit_offset, bit_length, bit_right_amount) ==
    IF ToSize(bit_offset + bit_length) > sz THEN Outcome("ok", b, {})
    ELSE IF bit_length = 0 \/ bit_length = 1 THEN Outcome("ok", b, {})
    ELSE bitarray_rotate_shift(b, bit_offset, bit_length, bit_right_amount)

\* bitarray_rotate_left_one's loop, from index i.  (Comparing the domains makes
\* TLC compute each pass before it enters the next.)
RECURSIVE rotate_left_one_loop(_, _, _)
rotate_left_one_loop(b, i, last) ==
    IF i + 1 < last
    THEN LET nb == bitarray_set(b, i, bitarray_get(b, i + 1))
         IN  IF DOMAIN nb = DOMAIN b THEN rotate_left_one_loop(nb, i + 1, last) ELSE nb
    ELSE b

bitarray_rotate_left_one(b, bit_offset, bit_length) ==
    LET first_bit == bitarray_get(b, bit_offset)
        shifted == rotate_left_one_loop(b, bit_offset, bit_offset + bit_length)
    IN  bitarray_set(shifted, bit_offset + bit_length - 1, first_bit)

RECURSIVE bitarray_rotate_left(_, _, _, _)
bitarray_rotate_left(b, bit_offset, bit_length, bit_left_amount) ==
    IF bit_left_amount = 0 THEN b
    ELSE LET nb == bitarray_rotate_left_one(b, bit_offset, bit_length)
         IN  IF DOMAIN nb = DOMAIN b
             THEN bitarray_rotate_left(nb, bit_offset, bit_length, bit_left_amount - 1)
             ELSE nb

\* The reference rotation, for a subrange inside the array
\* (its assert(bit_offset + bit_length <= bit_sz) holds).
bitarray_rotate_old(b, bit_offset, bit_length, bit_right_amount) ==
    IF bit_length = 0 THEN b
    ELSE bitarray_rotate_left(b, bit_offset, bit_length,
                              modulo(ToSSize(-bit_right_amount), bit_length))

\* ------------------------------------------------------------- the driver

\* Sizes the arrays are created with.
BitSizes == 0 .. MaxBitSz

\* Subranges <<offset, length>> bitarray_rotate is called with: every subrange
\* inside an array of sz bits, every one that ends one bit past it, and pairs
\* with an argument next to 2^SizeBits, whose sum offset + length wraps or
\* nearly wraps.
WrapRanges ==
    { <<SIZE_MOD - 8, 8>>, <<SIZE_MOD - 8, 7>>, <<SIZE_MOD - 1, 2>>,
      <<1, SIZE_MOD - 1>> }

Ranges(sz) ==
    {r \in (0 .. sz) \X (0 .. sz + 1) : r[1] + r[2] <= sz + 1} \cup WrapRanges

Amounts == (-MaxAmount) .. MaxAmount

\* Amounts get_shift is called with directly: up to three times around.
ShiftAmounts == (-(3 * MaxAmount)) .. (3 * MaxAmount)

NoCall == [op |-> "none", x |-> 0, y |-> 0, z |-> 0]

ACall(op, x, y, z) == [op |-> op, x |-> x, y |-> y, z |-> z]

\* bitarray_new(bit_sz), before the first call.
Init ==
    /\ bit_sz \in BitSizes
    /\ buf = bitarray_new(bit_sz)
    /\ pc = "call"
    /\ call = NoCall
    /\ pre = buf
    /\ ret = 0
    /\ status = "ok"
    /\ access = {}

\* The call ended: it returned to the driver, or the process was aborted.
Ended(c, st, b, r, acc) ==
    /\ call' = c
    /\ pre' = buf
    /\ buf' = b
    /\ ret' = r
    /\ status' = st
    /\ access' = acc
    /\ pc' = IF st = "ok" THEN "check" ELSE "aborted"
    /\ UNCHANGED bit_sz

Call_bitarray_set ==
    /\ pc = "call"
    /\ \E bit_index \in 0 .. bit_sz, value \in BOOLEAN :
         LET c == ACall("set", bit_index, IF value THEN 1 ELSE 0, 0)
         IN  IF bit_index < bit_sz
             THEN Ended(c, "ok", bitarray_set(buf, bit_index, value), 0,
                        {bit_index \div 8})
             ELSE Ended(c, "abort", buf, 0, {})

Call_bitarray_get ==
    /\ pc = "call"
    /\ \E bit_index \in 0 .. bit_sz :
         LET c == ACall("get", bit_index, 0, 0)
         IN  IF bit_index < bit_sz
             THEN Ended(c, "ok", buf,
                        IF bitarray_get(buf, bit_index) THEN 1 ELSE 0,
                        {bit_index \div 8})
             ELSE Ended(c, "abort", buf, 0, {})

Call_get_shift ==
    /\ pc = "call"
    /\ \E bit_length \in 0 .. MaxBitSz + 1, amount \in ShiftAmounts :
         LET c == ACall("get_shift", bit_length, amount, 0)
         IN  IF modulo_assert(bit_length)
             THEN Ended(c, "ok", buf, get_shift(bit_length, amount), {})
             ELSE Ended(c, "abort", buf, 0, {})

\* An access outside the buffer is undefined: the process is killed, or the
\* call returns with the array's own buffer as it was.
Call_bitarray_rotate ==
    /\ pc = "call"
    /\ \E r \in Ranges(bit_sz), amount \in Amounts :
       \E o \in {bitarray_rotate(buf, bit_sz, r[1], r[2], amount)} :
       \E st \in (IF o.status = "oob" THEN {"ok", "segv"} ELSE {o.status}) :
          Ended(ACall("rotate", r[1], r[2], amount), st, o.buf, 0, o.access)

\* The driver has looked at the result of the call and goes on.
myassert ==
    /\ pc = "check"
    /\ pc' = "call"
    /\ call' = NoCall
    /\ pre' = buf
    /\ ret' = 0
    /\ status' = "ok"
    /\ access' = {}
    /\ UNCHANGED <<bit_sz, buf>>

\* The driver of the bit array: set, get and rotate.
Next ==
    \/ Call_bitarray_set
    \/ Call_bitarray_get
    \/ Call_bitarray_rotate
    \/ myassert

Spec == Init /\ [][Next]_vars

\* The driver of get_shift alone (test_get_shift).
NextShift ==
    \/ Call_get_shift
    \/ myassert

SpecShift == Init /\ [][NextShift]_vars

\* ------------------------------------------------------------- properties

\* Bit i of buffer b, read arithmetically: byte i/8, position i mod 8 from the
\* least-significant bit.
Bit(b, i) == (ToUChar(b[i \div 8]) \div Pow2(i % 8)) % 2

\* Every bit position of the buffer, the padding of the last byte included.
AllBits == 0 .. 8 * BufLen(bit_sz) - 1

\* The last call was bitarray_rotate(offset = call.x, length = call.y,
\* amount = call.z).
Rotated == call.op = "rotate"

\* ... on a subrange inside the array (the sum is the true one, not wrapped).
RotatedInRange == Rotated /\ call.x + call.y <= bit_sz

\* ... which lies in one char, has two bits or more, and a non-zero shift.
RotatedInByte ==
    /\ RotatedInRange
    /\ call.y >= 2
    /\ call.x \div 8 = (call.x + call.y - 1) \div 8
    /\ call.z % call.y # 0

\* C1: after bitarray_rotate on a subrange inside the array the buffer equals the
\* one the reference rotation bitarray_rotate_old leaves: the bit at offset + p
\* is at offset + ((p + shift) mod length), shift = amount mod length, for
\* subranges in one byte and across bytes.
C1_MatchesReference ==
    RotatedInRange =>
        /\ status = "ok"
        /\ buf = bitarray_rotate_old(pre, call.x, call.y, call.z)
        /\ call.y > 0 =>
             \A p \in 0 .. call.y - 1 :
                Bit(buf, call.x + ((p + call.z) % call.y)) = Bit(pre, call.x + p)

\* C2: bitarray_rotate on a subrange inside the array leaves every bit outside
\* [offset, offset + length) as it was: the bits of the first byte below offset,
\* those of the last byte above the subrange, and the padding bits.
C2_OutsideUnchanged ==
    RotatedInRange =>
        /\ status = "ok"
        /\ DOMAIN buf = DOMAIN pre
        /\ \A i \in AllBits :
              (i < call.x \/ i >= call.x + call.y) => Bit(buf, i) = Bit(pre, i)

\* A rotation inside the last, partly used byte changed the subrange, with a set
\* bit right below it and one right above it.
C2_Witness ==
    /\ RotatedInRange
    /\ buf # pre
    /\ bit_sz % 8 # 0
    /\ call.x \div 8 = BufLen(bit_sz) - 1
    /\ call.x % 8 > 0
    /\ call.x + call.y < bit_sz
    /\ Bit(pre, call.x - 1) = 1
    /\ Bit(pre, call.x + call.y) = 1

\* C3: a bitarray_rotate call with offset + length > bit_sz is reported to the
\* caller as an error; it never returns normally as a no-op.
C3_RangeErrorReported ==
    (Rotated /\ call.x + call.y > bit_sz) => status # "ok"

\* C4: after bitarray_set(index, value) with index < bit_sz, bitarray_get(index)
\* is value, the bit sits in byte index/8 at position index mod 8 from the
\* least-significant bit, every other bit of the buffer (padding included) is as
\* before; and bitarray_get returns that bit and changes nothing.
C4_SetGetRoundTrip ==
    /\ (call.op = "set" /\ call.x < bit_sz) =>
          /\ status = "ok"
          /\ bitarray_get(buf, call.x) = (call.y = 1)
          /\ Bit(buf, call.x) = call.y
          /\ \A j \in AllBits \ {call.x} : Bit(buf, j) = Bit(pre, j)
    /\ (call.op = "get" /\ call.x < bit_sz) =>
          /\ status = "ok"
          /\ ret = Bit(buf, call.x)
          /\ buf = pre

\* A set bit was cleared while another bit of the same byte is set.
C4_Witness ==
    /\ call.op = "set"
    /\ status = "ok"
    /\ call.y = 0
    /\ Bit(pre, call.x) = 1
    /\ \E j \in AllBits \ {call.x} : j \div 8 = call.x \div 8 /\ Bit(pre, j) = 1

\* C5: after bitarray_rotate(offset, length, k) on a subrange inside the array,
\* bitarray_rotate(offset, length, -k) restores the whole buffer.
C5_InverseRestores ==
    (RotatedInRange /\ status = "ok") =>
        bitarray_rotate(buf, bit_sz, call.x, call.y, -call.z).buf = pre

\* C6: bitarray_rotate by k1 followed by bitarray_rotate by k2 on the same
\* subrange leaves the buffer a single bitarray_rotate by k1 + k2 leaves.
C6_Composes ==
    (RotatedInRange /\ status = "ok") =>
        \A k2 \in Amounts :
            bitarray_rotate(buf, bit_sz, call.x, call.y, k2).buf
              = bitarray_rotate(pre, bit_sz, call.x, call.y, call.z + k2).buf

\* C7: bitarray_rotate on a subrange inside the array returns with the buffer
\* unchanged when length is 0 or 1, and when the amount is 0 or a positive or
\* negative multiple of length.
C7_IdentityRotation ==
    (RotatedInRange /\ (call.y \in {0, 1} \/ call.z % call.y = 0)) =>
        /\ status = "ok"
        /\ buf = pre

\* A rotation by a non-zero multiple of the length, over a subrange of two bits
\* or more that holds both a set and a clear bit.
C7_Witness ==
    /\ RotatedInRange
    /\ status = "ok"
    /\ call.y >= 2
    /\ call.z # 0
    /\ call.z % call.y = 0
    /\ \E i, j \in call.x .. call.x + call.y - 1 : Bit(pre, i) = 1 /\ Bit(pre, j) = 0

\* C8: for length > 0 and any signed amount, get_shift returns the r with
\* 0 <= r < length and r congruent to amount modulo length; a negative amount -k
\* gives (length - (k mod length)) mod length, a multiple of length gives 0.
C8_GetShiftNormalises ==
    (call.op = "get_shift" /\ call.x > 0) =>
        /\ status = "ok"
        /\ 0 <= ret /\ ret < call.x
        /\ (ret - call.y) % call.x = 0
        /\ call.y < 0 => ret = (call.x - ((-call.y) % call.x)) % call.x
        /\ call.y % call.x = 0 => ret = 0

\* get_shift was called with a negative amount of more than one turn and
\* returned a non-zero shift.
C8_Witness ==
    /\ call.op = "get_shift"
    /\ status = "ok"
    /\ call.y < 0
    /\ -call.y > call.x
    /\ ret > 0

\* C9: after bitarray_rotate on a subrange of two bits or more inside one byte,
\* with shift = amount mod length # 0, the bit that was at offset + p is at
\* offset + ((p - shift) mod length), for every value of the byte.
C9_SingleByteRotation ==
    RotatedInByte =>
        /\ status = "ok"
        /\ \A p \in 0 .. call.y - 1 :
              Bit(buf, call.x + ((p - call.z) % call.y)) = Bit(pre, call.x + p)

\* C10: bitarray_rotate never reads or writes a char outside the buffer, for any
\* size_t offset and length, also when offset + length wraps: a call whose true
\* offset + length exceeds bit_sz touches nothing.
C10_NoAccessOutsideBuffer ==
    Rotated =>
        /\ access \subseteq 0 .. BufLen(bit_sz) - 1
        /\ call.x + call.y > bit_sz => access = {}

====
